---- MODULE Spec2Model ----
(***************************************************************************)
(* Model of the templated e-mail service: the FastAPI handlers of main.py, *)
(* the Jinja2 rendering of templates.py, the SendGrid call of transport.py *)
(* and the Settings object of config.py.                                   *)
(*                                                                         *)
(* Text is a sequence of atoms (strings).  A literal chunk of a template   *)
(* is one atom, a supplied value is a sequence of atoms, so that           *)
(* concatenation is \o and "contains" is a sub-sequence test.  Non-ASCII   *)
(* punctuation of the templates is written in ASCII.                       *)
(***************************************************************************)
EXTENDS Naturals, Sequences, FiniteSets, TLC

\* ------------------------------------------------------------------ bounds
\* longest recipient list a request carries
MaxTo == 2
\* most keys a variable mapping handed to a template function lacks
MaxMissing == 2

\* ------------------------------------------------------------ text helpers
Contains(s, sub) ==
    \E i \in 0..Len(s) :
        /\ i + Len(sub) <= Len(s)
        /\ SubSeq(s, i + 1, i + Len(sub)) = sub

StartsWith(s, pre) == Len(pre) <= Len(s) /\ SubSeq(s, 1, Len(pre)) = pre

\* dict.get(key, default)
Get(d, k, default) == IF k \in DOMAIN d THEN d[k] ELSE default

\* d[k] = v on a dict: adds the key or overwrites it
Put(d, k, v) == [x \in DOMAIN d \cup {k} |-> IF x = k THEN v ELSE d[x]]

Lit(s) == [kind |-> "lit", s |-> s, safe |-> FALSE]
Var(k) == [kind |-> "var", s |-> k, safe |-> FALSE]
SafeVar(k) == [kind |-> "var", s |-> k, safe |-> TRUE]

\* ------------------------------------------------------------------ jinja2
\* Template(source) is built with jinja2's defaults: no autoescaping, and the
\* default Undefined, which prints as the empty string.
AutoescapeOn == TRUE
Autoescape == FALSE

Undefined == <<>>

EscapeAtom(a) ==
    CASE a = "<" -> "&lt;"
      [] a = ">" -> "&gt;"
      [] a = "&" -> "&amp;"
      [] OTHER -> a

Escape(v) == [i \in 1..Len(v) |-> EscapeAtom(v[i])]

\* what {{ name }} prints for a value
Finalize(v, safe) == IF Autoescape /\ ~safe THEN Escape(v) ELSE v

\* Template(tokens).render(ctx)
RECURSIVE Render(_, _)
Render(tokens, ctx) ==
    IF tokens = <<>> THEN <<>>
    ELSE LET t == Head(tokens)
             out == IF t.kind = "lit" THEN <<t.s>>
                    ELSE IF t.s \in DOMAIN ctx THEN Finalize(ctx[t.s], t.safe)
                    ELSE Undefined
         IN out \o Render(Tail(tokens), ctx)

\* ------------------------------------------------------------ templates.py
HTML_WRAPPER ==
    << Lit("<!DOCTYPE html><html lang=en><head><meta charset=UTF-8><title>"),
       Var("subject"),
       Lit("</title><style>...</style></head><body><div class=container>"),
       SafeVar("body_content"),
       Lit("<div class=footer><p>The "),
       Var("company_name"),
       Lit(" Team</p></div></div></body></html>") >>

FallbackCompany == <<"Company">>

render_template(subject, body_html, data) ==
    LET wrapped_body == Render(body_html, data)
    IN Render(HTML_WRAPPER,
              [subject |-> subject,
               body_content |-> wrapped_body,
               company_name |-> Get(data, "company_name", FallbackCompany)])

SubscriptionEndSubject == <<"Your Subscription is About to End - Renew Today!">>

SubscriptionEndBody ==
    << Lit("<p>Hi "), Var("FirstName"),
       Lit(",</p><p>We noticed your subscription to <strong>"),
       Var("ProductServiceName"),
       Lit("</strong> is ending on <strong>"), Var("EndDate"),
       Lit("</strong>. We'd hate to see you miss out ...</p><p>Renew now to continue uninterrupted access:</p><p><a href=# class=button>Renew My Subscription</a></p><p>If you've already renewed, thank you! Please disregard this message.</p><p>Best regards,</p>") >>

get_subscription_end_notification(data) ==
    LET subject == SubscriptionEndSubject
    IN [subject |-> subject,
        html |-> render_template(subject, SubscriptionEndBody, data)]

OptInSubject == <<"Please Confirm Your Subscription">>

OptInBody ==
    << Lit("<p>Hi "), Var("FirstName"),
       Lit(",</p><p>Thanks for your interest in "), Var("company_name"),
       Lit("!</p><p>To make sure we've got your permission, please confirm your subscription by clicking the button below:</p><p><a href=# class=button>Confirm My Subscription</a></p><p>Once confirmed, you'll receive updates ...</p><p>If you didn't request this, simply ignore this email.</p><p>Warm regards,</p>") >>

get_opt_in_confirmation(data) ==
    LET subject == OptInSubject
    IN [subject |-> subject,
        html |-> render_template(subject, OptInBody, data)]

NewsletterSubjectTail == <<" Highlights - News, Tips & What's Next!">>

NewsletterSubjectNoDefault(data) ==
    Get(data, "Month", <<>>) \o NewsletterSubjectTail

NewsletterSubject(data) ==
    Get(data, "Month", <<"This Month">>) \o NewsletterSubjectTail

NewsletterBody ==
    << Lit("<p>Hello "), Var("FirstName"),
       Lit(",</p><p>Here's what's new this month at "), Var("company_name"),
       Lit(":</p><h4>In the Spotlight: "), Var("Headline1"),
       Lit("</h4><p><i>A brief description ...</i></p><h4>Pro Tip: "),
       Var("TipOrInsight"),
       Lit("</h4><p><i>Elaborate on the tip ...</i></p><h4>Upcoming Event: "),
       Var("EventName"), Lit(" on "), Var("EventDate"),
       Lit("</h4><p><i>Give some more details about the event ...</i></p><h4>Exclusive Offer: "),
       Var("OfferDetails"),
       Lit("</h4><p><i>Explain the offer in more detail ...</i></p><p>Stay tuned for more updates and insights in next month's edition!</p><p>Cheers,</p>") >>

get_newsletter_template(data) ==
    LET subject == NewsletterSubject(data)
    IN [subject |-> subject,
        html |-> render_template(subject, NewsletterBody, data)]

ProductLaunchSubjectHead == <<"Introducing Our New ">>
ProductLaunchSubjectTail == <<" - It's Finally Here!">>

ProductLaunchSubject(data) ==
    ProductLaunchSubjectHead \o Get(data, "ProductName", <<"Product">>)
        \o ProductLaunchSubjectTail

ProductLaunchBody ==
    << Lit("<p>Hi "), Var("FirstName"),
       Lit(",</p><p>We're thrilled to announce the launch of our latest innovation - <strong>"),
       Var("ProductName"),
       Lit("</strong>!</p><p>Designed to "), Var("ProductBenefit"),
       Lit(", this is a game-changer you won't want to miss.</p><h4>Key Features:</h4><ul><li>"),
       Var("Feature1"), Lit("</li><li>"), Var("Feature2"),
       Lit("</li><li>"), Var("Feature3"),
       Lit("</li></ul><p><a href=# class=button>Be among the first to experience it - Learn More / Buy Now</a></p><p>Thank you for being part of our journey!</p>") >>

get_product_launch_announcement(data) ==
    LET subject == ProductLaunchSubject(data)
    IN [subject |-> subject,
        html |-> render_template(subject, ProductLaunchBody, data)]

Templates == {"subscription-ending", "opt-in-confirmation", "newsletter", "product-launch"}

\* the content fragment a template function renders
Fragment(tpl) ==
    CASE tpl = "subscription-ending" -> SubscriptionEndBody
      [] tpl = "opt-in-confirmation" -> OptInBody
      [] tpl = "newsletter" -> NewsletterBody
      [] tpl = "product-launch" -> ProductLaunchBody

\* the template function an endpoint calls
GetTemplate(tpl, data) ==
    CASE tpl = "subscription-ending" -> get_subscription_end_notification(data)
      [] tpl = "opt-in-confirmation" -> get_opt_in_confirmation(data)
      [] tpl = "newsletter" -> get_newsletter_template(data)
      [] tpl = "product-launch" -> get_product_launch_announcement(data)

\* the placeholders a token sequence references
TokenVars(tokens) == {tokens[i].s : i \in {j \in 1..Len(tokens) : tokens[j].kind = "var"}}

FragmentVars(tpl) == TokenVars(Fragment(tpl))

\* ---------------------------------------------------------------- config.py
InitSettings ==
    [company_name |-> <<"Your Company">>,
     sendgrid_api_key |-> <<"DEFAULT_KEY_IF_NOT_SET">>,
     sendgrid_from_email |-> <<"SENDGRID_FROM_EMAIL">>]

\* ------------------------------------------------------------------ main.py
\* the documented example of each payload model's data
Example(tpl) ==
    CASE tpl = "subscription-ending" ->
            [FirstName |-> <<"Alex">>,
             ProductServiceName |-> <<"Pro Plan">>,
             EndDate |-> <<"October 31, 2025">>]
      [] tpl = "opt-in-confirmation" ->
            [FirstName |-> <<"Casey">>]
      [] tpl = "newsletter" ->
            [FirstName |-> <<"Jordan">>,
             Month |-> <<"October">>,
             Headline1 |-> <<"Our Biggest Update Yet!">>,
             TipOrInsight |-> <<"You can now sync your data across devices seamlessly.">>,
             EventName |-> <<"Annual Tech Summit">>,
             EventDate |-> <<"November 15, 2025">>,
             OfferDetails |-> <<"Get 20% off on all annual plans this month.">>]
      [] tpl = "product-launch" ->
            [FirstName |-> <<"Sam">>,
             ProductName |-> <<"SyncMaster 5000">>,
             ProductBenefit |-> <<"automate your workflow like never before">>,
             Feature1 |-> <<"AI-Powered Suggestions">>,
             Feature2 |-> <<"One-Click Cloud Backup">>,
             Feature3 |-> <<"Real-time Collaboration">>]

\* ------------------------------------------------------------------ inputs
Requests == {"r1", "r2"}

\* a company name a caller puts into data itself
CallerCompany == <<"Evil Corp">>

Restrict(d, keys) == [k \in keys |-> d[k]]

Styles == {"plain", "markup"}

\* a value as supplied: the example text, or the example text amid HTML/Jinja
\* special characters
Styled(v, style) == IF style = "plain" THEN v ELSE <<"<">> \o v \o <<"&", "{{">>

\* mappings handed to a template function directly: the example plus a
\* company name, lacking at most MaxMissing keys
DataInputs(tpl) ==
    LET full == Put(Example(tpl), "company_name", CallerCompany)
        keys == DOMAIN full
    IN { [k \in keys \ m |-> Styled(full[k], st)] :
            m \in {x \in SUBSET keys : Cardinality(x) <= MaxMissing},
            st \in Styles }

\* data objects a caller posts to an endpoint: the documented example with a
\* company name of the caller's added, and the example without FirstName
ServiceData(tpl) ==
    { Put(Example(tpl), "company_name", CallerCompany),
      Restrict(Example(tpl), DOMAIN Example(tpl) \ {"FirstName"}) }

Addr1 == <<"customer", "@", "example", ".", "com">>
Addr2 == <<"a", "@", "x", ".", "com">>
NoAt == <<"customer", ".", "example", ".", "com">>
NoDomain == <<"customer", "@">>

ValidAddresses == {Addr1, Addr2}
Addresses == ValidAddresses \cup {NoAt, NoDomain}

SeqsUpTo(S, n) == UNION {[1..k -> S] : k \in 0..n}

\* request bodies: a field may be absent from the JSON object
Bodies(tpl) ==
    { [hasTo |-> TRUE, to |-> t, hasData |-> TRUE, data |-> d] :
        t \in SeqsUpTo(Addresses, MaxTo), d \in ServiceData(tpl) }
    \cup { [hasTo |-> FALSE, to |-> <<>>, hasData |-> TRUE, data |-> d] :
        d \in ServiceData(tpl) }
    \cup { [hasTo |-> TRUE, to |-> t, hasData |-> FALSE, data |-> [k \in {} |-> <<>>]] :
        t \in SeqsUpTo(ValidAddresses, 1) }

\* EmailStr: one "@" with a local part before it and a dotted domain after it
IsEmail(a) ==
    \E i \in 1..Len(a) :
        /\ a[i] = "@"
        /\ \A j \in 1..Len(a) : a[j] = "@" => j = i
        /\ i > 1
        /\ \E j \in (i + 2)..(Len(a) - 1) : a[j] = "."

\* pydantic validation of EmailRecipient / TemplatePayload
Validate(body) ==
    IF ~body.hasTo \/ ~body.hasData THEN "missing_field"
    ELSE IF \E i \in 1..Len(body.to) : ~IsEmail(body.to[i]) THEN "bad_email"
    ELSE "ok"

\* ------------------------------------------------------------------- state
VARIABLES
    settings,     \* config.settings, the module-level Settings instance
    req,          \* per request: where it is, its payload, the handler's locals, its response
    tasks,        \* per request: its BackgroundTasks list
    deliveries,   \* per request: the transport.send_email invocations made for it
    call          \* the last direct call of a template function

vars == <<settings, req, tasks, deliveries, call>>

NoDoc == [subject |-> <<>>, html |-> <<>>]

\* the empty dict
EmptyMap == [k \in {} |-> <<>>]

Idle ==
    [pc |-> "idle", endpoint |-> "none", to |-> <<>>, data |-> EmptyMap,
     vars |-> EmptyMap, rendered |-> NoDoc, renders |-> 0, status |-> 0]

NoCall == [tpl |-> "none", data |-> EmptyMap, subject |-> <<>>, html |-> <<>>]

Init ==
    /\ settings = InitSettings
    /\ req = [r \in Requests |-> Idle]
    /\ tasks = [r \in Requests |-> <<>>]
    /\ deliveries = [r \in Requests |-> <<>>]
    /\ call = NoCall

\* ------------------------------------------------------------ transport.py
ProviderOutcomes == {"accepted", "error"}

\* send_email with a retry after a failed provider call
send_email_retry(to_emails, subject, html_body, outcome) ==
    [to_emails |-> to_emails, subject |-> subject, html_body |-> html_body,
     from_email |-> settings.sendgrid_from_email,
     api_key |-> settings.sendgrid_api_key,
     messages |-> 1,
     provider_outcome |-> outcome,
     provider_calls |-> IF outcome = "accepted" THEN 1 ELSE 2,
     result |-> IF outcome = "accepted" THEN "returned" ELSE "raised"]

\* one invocation of send_email: one Mail for all recipients, one sg.send;
\* an exception of the provider call is printed and re-raised
send_email(to_emails, subject, html_body, outcome) ==
    [to_emails |-> to_emails, subject |-> subject, html_body |-> html_body,
     from_email |-> settings.sendgrid_from_email,
     api_key |-> settings.sendgrid_api_key,
     messages |-> 1,
     provider_outcome |-> outcome,
     provider_calls |-> 1,
     result |-> IF outcome = "accepted" THEN "returned" ELSE "raised"]

\* ------------------------------------------------------------------ main.py
\* payload.data.setdefault('company_name', ...) in place of the assignment
InjectCompanyIfAbsent(data, name) ==
    IF "company_name" \in DOMAIN data THEN data ELSE Put(data, "company_name", name)

\* payload.data['company_name'] = settings.company_name
InjectCompany(data, name) == Put(data, "company_name", name)

\* add_task called twice
AddTaskTwice(ts, to_emails, subject, html_body) ==
    ts \o << [to_emails |-> to_emails, subject |-> subject, html_body |-> html_body],
             [to_emails |-> to_emails, subject |-> subject, html_body |-> html_body] >>

\* background_tasks.add_task(transport.send_email, to_emails=..., subject=..., html_body=...)
AddTask(ts, to_emails, subject, html_body) ==
    Append(ts, [to_emails |-> to_emails, subject |-> subject, html_body |-> html_body])

\* a handler that also stores the caller's company name in the shared settings
HandlerSharingSettings(r, tpl, body) ==
    LET data == InjectCompany(body.data, Get(body.data, "company_name", settings.company_name))
        doc == GetTemplate(tpl, data)
    IN /\ req' = [req EXCEPT ![r] =
                    [pc |-> "queued", endpoint |-> tpl, to |-> body.to,
                     data |-> body.data, vars |-> data, rendered |-> doc,
                     renders |-> 1, status |-> 0]]
       /\ tasks' = [tasks EXCEPT ![r] = AddTask(@, body.to, doc.subject, doc.html)]
       /\ settings' = [settings EXCEPT !.company_name = data["company_name"]]
       /\ UNCHANGED <<deliveries, call>>

\* the body of a send_* handler, entered with a validated payload: inject the
\* company name, render, queue the delivery, return (the 202 is sent next)
Handler(r, tpl, body) ==
    LET data == InjectCompany(body.data, settings.company_name)
        doc == GetTemplate(tpl, data)
    IN /\ req' = [req EXCEPT ![r] =
                    [pc |-> "queued", endpoint |-> tpl, to |-> body.to,
                     data |-> body.data, vars |-> data, rendered |-> doc,
                     renders |-> 1, status |-> 0]]
       /\ tasks' = [tasks EXCEPT ![r] = AddTask(@, body.to, doc.subject, doc.html)]
       /\ UNCHANGED <<settings, deliveries, call>>

\* a body that fails validation: 422, the handler is not entered
Reject(r, tpl) ==
    /\ req' = [req EXCEPT ![r] = [Idle EXCEPT !.pc = "rejected", !.endpoint = tpl,
                                               !.status = 422]]
    /\ UNCHANGED <<settings, tasks, deliveries, call>>

\* a POST to an endpoint: pydantic validates the body, then the handler runs
send_subscription_ending(r) ==
    /\ req[r].pc = "idle"
    /\ \E body \in Bodies("subscription-ending") :
          IF Validate(body) = "ok" THEN Handler(r, "subscription-ending", body)
          ELSE Reject(r, "subscription-ending")

send_opt_in_confirmation(r) ==
    /\ req[r].pc = "idle"
    /\ \E body \in Bodies("opt-in-confirmation") :
          IF Validate(body) = "ok" THEN Handler(r, "opt-in-confirmation", body)
          ELSE Reject(r, "opt-in-confirmation")

send_newsletter(r) ==
    /\ req[r].pc = "idle"
    /\ \E body \in Bodies("newsletter") :
          IF Validate(body) = "ok" THEN Handler(r, "newsletter", body)
          ELSE Reject(r, "newsletter")

send_product_launch(r) ==
    /\ req[r].pc = "idle"
    /\ \E body \in Bodies("product-launch") :
          IF Validate(body) = "ok" THEN Handler(r, "product-launch", body)
          ELSE Reject(r, "product-launch")

\* the handler has returned: the 202 response is sent
Respond(r) ==
    /\ req[r].pc = "queued"
    /\ req' = [req EXCEPT ![r].pc = "responded", ![r].status = 202]
    /\ UNCHANGED <<settings, tasks, deliveries, call>>

\* the background tasks run before the response is sent
RunBackgroundEarly(r) ==
    /\ req[r].pc = "queued"
    /\ tasks[r] # <<>>
    /\ \E outcome \in ProviderOutcomes :
          LET t == Head(tasks[r])
              d == send_email(t.to_emails, t.subject, t.html_body, outcome)
          IN /\ deliveries' = [deliveries EXCEPT ![r] = Append(@, d)]
             /\ tasks' = [tasks EXCEPT ![r] = Tail(@)]
             /\ UNCHANGED req
    /\ UNCHANGED <<settings, call>>

\* after the response: the next queued task runs; a task that raises ends the run
RunBackground(r) ==
    /\ req[r].pc = "responded"
    /\ tasks[r] # <<>>
    /\ \E outcome \in ProviderOutcomes :
          LET t == Head(tasks[r])
              d == send_email(t.to_emails, t.subject, t.html_body, outcome)
          IN /\ deliveries' = [deliveries EXCEPT ![r] = Append(@, d)]
             /\ tasks' = [tasks EXCEPT ![r] = Tail(@)]
             /\ req' = [req EXCEPT ![r].pc =
                          IF d.result = "raised" THEN "failed"
                          ELSE IF Tail(tasks[r]) = <<>> THEN "sent"
                          ELSE "responded"]
    /\ UNCHANGED <<settings, call>>

Next ==
    \E r \in Requests :
        \/ send_subscription_ending(r)
        \/ send_opt_in_confirmation(r)
        \/ send_newsletter(r)
        \/ send_product_launch(r)
        \/ Respond(r)
        \/ RunBackground(r)

Spec == Init /\ [][Next]_vars

\* the server sends the response of a returned handler and then runs its tasks
FairSpec ==
    Spec /\ \A r \in Requests : WF_vars(Respond(r)) /\ WF_vars(RunBackground(r))

\* --------------------------------------------- direct template-function calls
CallRecord(tpl, data) ==
    LET doc == GetTemplate(tpl, data)
    IN [tpl |-> tpl, data |-> data, subject |-> doc.subject, html |-> doc.html]

CallSubscriptionEnd ==
    /\ \E d \in DataInputs("subscription-ending") : call' = CallRecord("subscription-ending", d)
    /\ UNCHANGED <<settings, req, tasks, deliveries>>

CallOptIn ==
    /\ \E d \in DataInputs("opt-in-confirmation") : call' = CallRecord("opt-in-confirmation", d)
    /\ UNCHANGED <<settings, req, tasks, deliveries>>

CallNewsletter ==
    /\ \E d \in DataInputs("newsletter") : call' = CallRecord("newsletter", d)
    /\ UNCHANGED <<settings, req, tasks, deliveries>>

CallProductLaunch ==
    /\ \E d \in DataInputs("product-launch") : call' = CallRecord("product-launch", d)
    /\ UNCHANGED <<settings, req, tasks, deliveries>>

RenderNext == CallSubscriptionEnd \/ CallOptIn \/ CallNewsletter \/ CallProductLaunch

RenderSpec == Init /\ [][RenderNext]_vars

\* ================================================================== claims
Accepted(r) == req[r].pc \in {"queued", "responded", "sent", "failed"}

TitleOpen == HTML_WRAPPER[1].s
TitleClose == HTML_WRAPPER[3].s
SignatureOpen == "<div class=footer><p>The "
SignatureClose == " Team</p></div></div></body></html>"

\* ------------------------------------------------------------ RenderSpec

\* C9: the subscription-ending and opt-in subjects are fixed strings; the
\* newsletter subject is the value of Month, or "This Month" when the mapping
\* has no such key, followed by the fixed tail; the product-launch subject
\* holds the value of ProductName, or "Product" when the mapping has no such
\* key; and the returned subject is the text of the document's title.
C9_SubjectDerivation ==
    call.tpl # "none" =>
        /\ call.tpl = "subscription-ending" =>
              call.subject = <<"Your Subscription is About to End - Renew Today!">>
        /\ call.tpl = "opt-in-confirmation" =>
              call.subject = <<"Please Confirm Your Subscription">>
        /\ call.tpl = "newsletter" =>
              IF "Month" \in DOMAIN call.data
              THEN call.subject =
                     call.data["Month"] \o <<" Highlights - News, Tips & What's Next!">>
              ELSE call.subject =
                     <<"This Month", " Highlights - News, Tips & What's Next!">>
        /\ call.tpl = "product-launch" =>
              IF "ProductName" \in DOMAIN call.data
              THEN call.subject =
                     <<"Introducing Our New ">> \o call.data["ProductName"]
                        \o <<" - It's Finally Here!">>
              ELSE call.subject =
                     <<"Introducing Our New ", "Product", " - It's Finally Here!">>
        /\ Contains(call.html, <<TitleOpen>> \o call.subject \o <<TitleClose>>)

C9_Witness ==
    /\ call.tpl = "newsletter"
    /\ "Month" \notin DOMAIN call.data
    /\ StartsWith(call.subject, <<"This Month">>)

\* C10: when the mapping has every placeholder of the fragment, each
\* placeholder's place in the document (between the literal text before and
\* after it) holds the supplied value unaltered, and the signature line holds
\* the mapping's company name when the mapping has one.
C10_CompleteMappingVerbatim ==
    (call.tpl # "none" /\ FragmentVars(call.tpl) \subseteq DOMAIN call.data) =>
        LET frag == Fragment(call.tpl)
        IN /\ \A i \in 1..Len(frag) :
                 frag[i].kind = "var" =>
                    Contains(call.html,
                             <<frag[i - 1].s>> \o call.data[frag[i].s] \o <<frag[i + 1].s>>)
           /\ "company_name" \in DOMAIN call.data =>
                 Contains(call.html,
                          <<SignatureOpen>> \o call.data["company_name"] \o <<SignatureClose>>)

C10_Witness ==
    /\ call.tpl = "newsletter"
    /\ FragmentVars("newsletter") \subseteq DOMAIN call.data
    /\ "company_name" \in DOMAIN call.data
    /\ Contains(call.data["FirstName"], <<"<">>)
    /\ Contains(call.html, <<"<p>Hello ", "<", "Jordan", "&", "{{">>)

\* ------------------------------------------------------------------ Spec

\* C1: a request whose variable mapping lacks a placeholder of its template's
\* fragment gets no rendered document (rendering fails instead of printing
\* the placeholder blank), and no delivery is queued or made for it.
C1_MissingVariableFails ==
    \A r \in Requests :
        (req[r].renders > 0
            /\ ~(FragmentVars(req[r].endpoint) \subseteq DOMAIN req[r].vars)) =>
                /\ req[r].rendered = NoDoc
                /\ tasks[r] = <<>>
                /\ deliveries[r] = <<>>

\* C3: a request rejected at validation gets a client error, is never rendered
\* and never delivered; and every request that gets past validation has only
\* valid recipient addresses and every variable its template requires.
C3_InvalidBodyRejected ==
    \A r \in Requests :
        /\ req[r].pc = "rejected" =>
              /\ req[r].status \in 400..499
              /\ req[r].renders = 0
              /\ tasks[r] = <<>>
              /\ deliveries[r] = <<>>
        /\ Accepted(r) =>
              /\ \A i \in 1..Len(req[r].to) : IsEmail(req[r].to[i])
              /\ (FragmentVars(req[r].endpoint) \ {"company_name"})
                    \subseteq DOMAIN req[r].data

\* C4: every accepted request, every queued delivery and every delivery made
\* has at least one recipient.
C4_RecipientsNonEmpty ==
    \A r \in Requests :
        /\ Accepted(r) => req[r].to # <<>>
        /\ \A i \in 1..Len(tasks[r]) : tasks[r][i].to_emails # <<>>
        /\ \A i \in 1..Len(deliveries[r]) : deliveries[r][i].to_emails # <<>>

\* the company name of a document: its signature line and every company_name
\* placeholder of the fragment hold `name`
CompanyIs(html, tpl, name) ==
    LET frag == Fragment(tpl)
    IN /\ Contains(html, <<SignatureOpen>> \o name \o <<SignatureClose>>)
       /\ \A i \in 1..Len(frag) :
             (frag[i].kind = "var" /\ frag[i].s = "company_name") =>
                Contains(html, <<frag[i - 1].s>> \o name \o <<frag[i + 1].s>>)

\* C5: for every handled request the mapping given to the renderer holds the
\* Settings company name, the rendered document and every delivered body carry
\* that name in the signature and in the fragment, and neither a company name
\* the caller put into data nor the renderer's fallback name occurs in them.
C5_CompanyFromSettings ==
    \A r \in Requests :
        req[r].renders > 0 =>
            /\ req[r].vars["company_name"] = <<"Your Company">>
            /\ CompanyIs(req[r].rendered.html, req[r].endpoint, <<"Your Company">>)
            /\ ~Contains(req[r].rendered.html, CallerCompany)
            /\ ~Contains(req[r].rendered.html, FallbackCompany)
            /\ \A i \in 1..Len(deliveries[r]) :
                  /\ CompanyIs(deliveries[r][i].html_body, req[r].endpoint, <<"Your Company">>)
                  /\ ~Contains(deliveries[r][i].html_body, CallerCompany)
                  /\ ~Contains(deliveries[r][i].html_body, FallbackCompany)

C5_Witness ==
    \E r \in Requests :
        /\ "company_name" \in DOMAIN req[r].data
        /\ req[r].data["company_name"] = CallerCompany
        /\ req[r].endpoint = "opt-in-confirmation"
        /\ deliveries[r] # <<>>

\* C6 as stated: no request is rendered before its response has been sent.
C6_NoRenderBeforeResponse ==
    \A r \in Requests : req[r].renders > 0 => req[r].status = 202

\* C6 amended: the handler renders once before the 202 is sent (between the
\* handler's return and the response the document exists and nothing has been
\* sent), and every delivery is made after the response.
C6_RenderBeforeResponseSendAfter ==
    \A r \in Requests :
        /\ req[r].pc = "queued" =>
              /\ req[r].renders = 1
              /\ req[r].status = 0
              /\ deliveries[r] = <<>>
        /\ req[r].status = 202 => req[r].renders = 1
        /\ deliveries[r] # <<>> => req[r].status = 202

C6_Witness ==
    \E r \in Requests :
        /\ req[r].pc = "queued"
        /\ req[r].renders = 1
        /\ req[r].status = 0
        /\ req[r].rendered.html # <<>>

\* what a request's delivery carries, from its own payload and the settings
\* the process started with
OwnDocument(r) ==
    GetTemplate(req[r].endpoint,
                Put(req[r].data, "company_name", InitSettings.company_name))

\* C7: every delivery of a request carries the recipients of that request and
\* the document its own data and the start-up settings give, whatever the
\* other request did in between; a step changes the state of one request
\* only; and the settings never change.
C7_RequestsIndependent ==
    /\ [](\A r \in Requests : \A i \in 1..Len(deliveries[r]) :
             /\ deliveries[r][i].to_emails = req[r].to
             /\ deliveries[r][i].subject = OwnDocument(r).subject
             /\ deliveries[r][i].html_body = OwnDocument(r).html
             /\ deliveries[r][i].from_email = InitSettings.sendgrid_from_email)
    /\ [][\E r \in Requests : \A o \in Requests \ {r} :
             /\ req'[o] = req[o]
             /\ tasks'[o] = tasks[o]
             /\ deliveries'[o] = deliveries[o]]_vars
    /\ [][settings' = settings]_vars

C7_Witness ==
    /\ deliveries["r1"] # <<>>
    /\ deliveries["r2"] # <<>>
    /\ req["r1"].endpoint = "newsletter"
    /\ req["r2"].endpoint = "product-launch"
    /\ "company_name" \in DOMAIN req["r1"].data
    /\ req["r1"].to # req["r2"].to

\* C8: every delivery invocation made exactly one provider call; an invocation
\* whose provider call failed raised, and no further invocation followed it
\* for that request; the response of the request is still the 202.
C8_OneProviderCallNoRetry ==
    \A r \in Requests : \A i \in 1..Len(deliveries[r]) :
        /\ deliveries[r][i].provider_calls = 1
        /\ deliveries[r][i].provider_outcome = "error" =>
              /\ deliveries[r][i].result = "raised"
              /\ i = Len(deliveries[r])
              /\ req[r].pc = "failed"
        /\ req[r].status = 202

C8_Witness ==
    \E r \in Requests :
        /\ Len(deliveries[r]) = 1
        /\ deliveries[r][1].provider_outcome = "error"
        /\ deliveries[r][1].result = "raised"
        /\ req[r].status = 202

\* -------------------------------------------------------------- FairSpec

\* C2: a request that passed validation is answered with 202 and then gets
\* exactly one delivery: never more than one, none before the response, one
\* once its background run has ended, and eventually one; the delivery is one
\* message to the request's recipient list in its order, with the subject and
\* body the request's render call returned.
C2_ExactlyOneDelivery ==
    /\ [](\A r \in Requests :
             /\ Len(deliveries[r]) <= 1
             /\ deliveries[r] # <<>> => req[r].status = 202
             /\ req[r].pc \in {"sent", "failed"} => Len(deliveries[r]) = 1
             /\ \A i \in 1..Len(deliveries[r]) :
                   /\ deliveries[r][i].to_emails = req[r].to
                   /\ deliveries[r][i].messages = 1
                   /\ deliveries[r][i].subject = req[r].rendered.subject
                   /\ deliveries[r][i].html_body = req[r].rendered.html)
    /\ \A r \in Requests :
          (req[r].pc = "queued") ~> (req[r].status = 202 /\ Len(deliveries[r]) = 1)

C2_Witness ==
    \E r \in Requests :
        /\ req[r].pc = "sent"
        /\ req[r].status = 202
        /\ Len(deliveries[r]) = 1
        /\ deliveries[r][1].to_emails = <<Addr2, Addr1>>

====
